---- MODULE Spec2Model ----
(***************************************************************************)
(* Model of src/ecco_access/ecco_s3_retrieve.py: the CMR granule query     *)
(* (pagination, single-day collapse, monthly snapshot filter), the         *)
(* download helpers (download_file, download_files_concurrently,           *)
(* download_files_s3_wrapper) and the public retrieval functions           *)
(* ecco_podaac_s3_query / _open / _get / _get_diskaware.                   *)
(*                                                                         *)
(* Time is counted in ticks, TicksPerDay ticks to a calendar day; a date   *)
(* 'YYYY-MM-DD' is a day number counted from 1992-01-29 (day 0), so that   *)
(* day 3 is 1992-02-01.  Strings that the code inspects by substring       *)
(* (ShortName) are sequences of characters; paths and S3 references are    *)
(* sequences of path components.                                           *)
(***************************************************************************)
EXTENDS Integers, Sequences, FiniteSets, TLC

\* ------------------------------------------------------------------ bounds
\* page_size of the CMR request (2000 in set_params), scaled down
PageSize == 2
\* resolution of timestamps: ticks per calendar day
TicksPerDay == 2
\* last day number a caller may name as StartDate / EndDate
MaxDay == 5
\* number of calls made one after the other in one behaviour
MaxCalls == 2
\* longest url list handed to the download helpers directly
MaxUrls == 3

\* largest catalog: two full pages and a partial one
MaxGranules == 2 * PageSize + 1

\* ------------------------------------------------------------ strings
\* ShortNames as character sequences; the code only tests substrings
SN_DAILY    == <<"S","_","D","A","I","L","Y">>
SN_MONTHLY  == <<"S","_","M","O","N","T","H","L","Y">>
SN_SNAPSHOT == <<"S","_","S","N","A","P","S","H","O","T">>
SN_GEOMETRY == <<"G","E","O","M">>
ShortNameSet == {SN_DAILY, SN_MONTHLY, SN_SNAPSHOT, SN_GEOMETRY}

STR_MONTHLY  == <<"M","O","N","T","H","L","Y">>
STR_DAILY    == <<"D","A","I","L","Y">>
STR_SNAPSHOT == <<"S","N","A","P","S","H","O","T">>

\* Python's  pat in s  for strings
Contains(s, pat) ==
    \E i \in 0..(Len(s) - Len(pat)) : SubSeq(s, i + 1, i + Len(pat)) = pat

\* ------------------------------------------------------------ calendar
MonthLen == <<31, 29, 31, 30, 31, 30, 31, 31, 30, 31, 30, 31>>

RECURSIVE DomFrom(_, _, _)
DomFrom(m, dom, n) ==
    IF n = 0 THEN dom
    ELSE IF dom = MonthLen[m] THEN DomFrom((m % 12) + 1, 1, n - 1)
         ELSE DomFrom(m, dom + 1, n - 1)

\* the 'DD' characters of the 'YYYY-MM-DD' rendering of day number d
DayOfMonth(d) == DomFrom(1, 29, d)

\* np.datetime64(t,'D'): truncate a timestamp to its calendar day
DayOf(t) == t \div TicksPerDay
\* a date string read as a timestamp: midnight of that day
Midnight(d) == d * TicksPerDay

Abs(x) == IF x < 0 THEN -x ELSE x

\* ------------------------------------------------------------ catalog
\* The CMR entry of granule i of a catalog whose granules start every
\* step ticks and last dur ticks.  link tells whether the entry carries a
\* link titled "... direct download access via S3"; its href embeds the
\* granule's date in the file name.
Href(i, t) == <<"podaac", [stem |-> i, date |-> DayOf(t)]>>

Entry(i, first, step, dur, nolink) ==
    [time_start |-> first + (i - 1) * step,
     time_end   |-> first + (i - 1) * step + dur,
     link       |-> (i # nolink),
     href       |-> Href(i, first + (i - 1) * step)]

CatalogSet ==
    { [i \in 1..n |-> Entry(i, first, step, dur, nolink)] :
        n \in 0..MaxGranules, first \in {0, 1},
        step \in {0, 1, TicksPerDay}, dur \in {0, TicksPerDay},
        nolink \in {0, 1} }

\* SelectSeq with a predicate written in place
RECURSIVE FilterIdx(_, _, _)
FilterIdx(s, keep, i) ==
    IF i > Len(s) THEN << >>
    ELSE (IF keep[i] THEN <<s[i]>> ELSE << >>) \o FilterIdx(s, keep, i + 1)

\* CMR temporal search: the entries whose extent meets [lo, hi] (dates,
\* read as midnights), in catalog order
Matching(cat, lo, hi) ==
    FilterIdx(cat,
              [i \in 1..Len(cat) |->
                  /\ cat[i].time_end >= Midnight(lo)
                  /\ cat[i].time_start <= Midnight(hi)],
              1)

Prefix(s, n) == SubSeq(s, 1, IF Len(s) < n THEN Len(s) ELSE n)

\* get_results: one page of the response feed
get_results(cat, lo, hi) == Prefix(Matching(cat, lo, hi), PageSize)


\* ------------------------------------------------------------ paths
\* A path is [abs, comps]: "/" + comps joined by "/" when abs, else the
\* comps joined by "/" ('' when there are none).  An S3 reference is a
\* sequence of components (bucket, ..., file name).
basename(url) == url[Len(url)]
join(p, c) == [p EXCEPT !.comps = Append(@, c)]
RootDir == [abs |-> TRUE, comps |-> << >>]
\* the directories Path.mkdir(parents=True) makes sure of
Ancestors(p) ==
    { [abs |-> p.abs, comps |-> SubSeq(p.comps, 1, k)] :
        k \in (IF p.abs THEN 0 ELSE 1)..Len(p.comps) }

\* ------------------------------------------------------------ state
VARIABLES
    catalog,     \* the entries CMR holds for every known ShortName
    avail,       \* shutil.disk_usage(...).free of the local disk
    fs,          \* local files: path |-> "partial" | "complete"
    dirs,        \* local directories that exist
    pc,          \* position of the running public call ("idle": none)
    fn,          \* the public function of the running / last call
    args,        \* its arguments
    ret,         \* outcome of the last finished call
    ncalls,      \* number of calls started
    transfers,   \* number of s3.get_file invocations so far
    q,           \* locals of ecco_podaac_s3_query / get_granules
    w,           \* locals of download_files_s3_wrapper and the pool
    d            \* locals of ecco_podaac_s3_get_diskaware

vars == <<catalog, avail, fs, dirs, pc, fn, args, ret, ncalls, transfers, q, w, d>>

isfile(p) == p \in DOMAIN fs
isdir(p) == p \in dirs

\* outcomes of a call
Pending      == [tag |-> "pending"]
RetNone      == [tag |-> "None"]
RetList(l)   == [tag |-> "list", val |-> l]
RetItem(x)   == [tag |-> "item", val |-> x]
RetDict(m)   == [tag |-> "dict", val |-> m]
Raised(e)    == [tag |-> "raise", exc |-> e]

CatalogOf(sn) == IF sn \in ShortNameSet THEN catalog ELSE << >>

\* ------------------------------------------------ ecco_podaac_s3_query
\* date_adjustment(ShortName, StartDate, EndDate, CMR_query=True)
date_adjustment(sn, sd, ed) ==
    [StartDate |-> sd,
     EndDate   |-> IF Contains(sn, STR_SNAPSHOT) THEN ed + 1 ELSE ed,
     SingleDay_flag |-> (sd = ed)]

\* locals at the entry of get_granules; granules is the s3_files_list of
\* get_granules, s3_files_list the one of ecco_podaac_s3_query (line 157)
QueryBegin(sn, sd, ed, si) ==
    LET adj == date_adjustment(sn, sd, ed) IN
    [ShortName |-> sn, StartDate |-> adj.StartDate, EndDate |-> adj.EndDate,
     SingleDay_flag |-> adj.SingleDay_flag, snapshot_interval |-> si,
     lo |-> adj.StartDate, requests |-> 0,
     time_start |-> << >>, granules |-> << >>, s3_files_list |-> << >>]

QueryIdle == QueryBegin(SN_GEOMETRY, 0, 0, "monthly")

\* the hrefs a page contributes: the first S3 link of each entry that has one
RECURSIVE PageLinks(_)
PageLinks(page) ==
    IF page = << >> THEN << >>
    ELSE (IF Head(page).link THEN <<Head(page).href>> ELSE << >>)
         \o PageLinks(Tail(page))

PageStarts(page) == [i \in 1..Len(page) |-> page[i].time_start]

\* np.argmin(np.abs(time_start - StartDate)), 0-based: first index of the minimum
ArgMin(ts, sd) ==
    CHOOSE i \in 0..(Len(ts) - 1) :
        /\ \A j \in 0..(Len(ts) - 1) :
              Abs(ts[i + 1] - Midnight(sd)) <= Abs(ts[j + 1] - Midnight(sd))
        /\ \A j \in 0..(i - 1) :
              Abs(ts[j + 1] - Midnight(sd)) > Abs(ts[i + 1] - Midnight(sd))

\* Python slice l[a:b] with 0 <= a <= b
SliceToEnd(l, a, b) == SubSeq(l, a + 1, Len(l))
Slice(l, a, b) ==
    SubSeq(l, a + 1, IF b < Len(l) THEN b ELSE Len(l))

\* lines 128-134: reduce granule list to single day
SingleDayReduce(sn, flag, ts, files, sd) ==
    IF /\ (Contains(sn, STR_MONTHLY) \/ Contains(sn, STR_DAILY))
       /\ flag
       /\ Len(files) > 1
    THEN LET day_index == ArgMin(ts, sd)
         IN  Slice(files, day_index, day_index + 1)
    ELSE files

\* list.remove(x): drop the first element equal to x
RECURSIVE ListRemove(_, _)
ListRemove(l, x) ==
    IF l = << >> THEN << >>
    ELSE IF Head(l) = x THEN Tail(l)
    ELSE <<Head(l)>> \o ListRemove(Tail(l), x)

\* re.findall("_[0-9]{4}-[0-9]{2}-[0-9]{2}", s3_file)[0][1:][8:]
SnapshotDD(s3_file) == DayOfMonth(basename(s3_file).date)

\* the loop run over the list it removes from
RECURSIVE RemoveWhileIterating(_, _)
RemoveWhileIterating(copy, i) ==
    IF i > Len(copy) THEN copy
    ELSE RemoveWhileIterating(IF SnapshotDD(copy[i]) # 1
                              THEN ListRemove(copy, copy[i]) ELSE copy,
                              i + 1)
MonthlyLoopInPlace(rest, copy) == RemoveWhileIterating(copy, 1)

RECURSIVE MonthlyLoop(_, _)
MonthlyLoop(rest, copy) ==
    IF rest = << >> THEN copy
    ELSE MonthlyLoop(Tail(rest),
                     IF SnapshotDD(Head(rest)) # 1
                     THEN ListRemove(copy, Head(rest))
                     ELSE copy)

\* lines 159-168: keep only the snapshots at the beginning of a month
MonthlyFilter(sn, si, files) ==
    IF Contains(sn, STR_SNAPSHOT) /\ si = "monthly"
    THEN MonthlyLoop(files, files)
    ELSE files


\* ------------------------------------------------ download helpers
\* collapsing rule: "if list has length 1, return a string instead of a list"
Collapse(l) == IF Len(l) = 1 THEN RetItem(l[1]) ELSE RetList(l)

\* s3.open(file)
S3Open(file) == [open |-> file]
OpenAll(files) == [i \in 1..Len(files) |-> S3Open(files[i])]

\* s3.info(s3_file)['size']
S3Size(s3_file) == basename(s3_file).stem

\* locals at the entry of download_files_s3_wrapper: every task of the
\* pool's map is queued
WrapperBegin(urls, dir, n, force) ==
    [s3_files_list |-> urls, download_dir |-> dir, n_workers |-> n,
     force_redownload |-> force,
     status |-> [i \in 1..Len(urls) |-> "queued"],
     downloaded_files |-> << >>, i |-> 1]

WrapperIdle == WrapperBegin(<< >>, RootDir, 1, FALSE)

\* every download of a directory written under one shared file name
TargetSharedName(dir, url) == join(dir, [stem |-> 1, date |-> 0])
Target(dir, url) == join(dir, basename(url))
Targets(dir, urls) == [i \in 1..Len(urls) |-> Target(dir, urls[i])]

\* iterating a str yields its characters, iterating a list its elements
Iter(x) == IF x.type = "str" THEN [i \in 1..Len(x.val) |-> <<x.val[i]>>]
           ELSE x.val

DiskIdle ==
    [names |-> << >>, k |-> 0, snapshot_interval |-> "monthly",
     max_avail_frac |-> 0, download_root_dir |-> RootDir,
     dataset_sizes |-> << >>, s3_files_list_all |-> << >>,
     query_dir |-> RootDir, decision |-> "none",
     retrieved_files |-> << >>]

RECURSIVE SumSeq(_)
SumSeq(s) == IF s = << >> THEN 0 ELSE Head(s) + SumSeq(Tail(s))

\* lines 622-625: bytes of the candidates that are not on disk yet
RECURSIVE DatasetSize(_, _)
DatasetSize(files, dir) ==
    IF files = << >> THEN 0
    ELSE (IF isfile(Target(dir, Head(files))) THEN 0 ELSE S3Size(Head(files)))
         + DatasetSize(Tail(files), dir)

\* ---------------------------------------------- what follows the wrapper
\* The code after download_files_s3_wrapper returned result in the caller.
AfterWrapper(wf, result) ==
    CASE fn = "wrapper" ->
            /\ pc' = "idle" /\ ret' = result /\ w' = wf
            /\ UNCHANGED <<q, d, dirs>>
      [] fn = "get" ->
            /\ pc' = "idle" /\ w' = wf
            /\ ret' = IF args.return_downloaded_files
                      THEN (IF result.tag = "None" THEN Raised("TypeError")
                            ELSE Collapse(result.val))
                      ELSE RetNone
            /\ UNCHANGED <<q, d, dirs>>
      [] fn = "diskaware" ->
            IF result.tag = "None"
            THEN /\ pc' = "idle" /\ ret' = Raised("TypeError") /\ w' = wf
                 /\ UNCHANGED <<q, d, dirs>>
            ELSE LET rf == (d.names[d.k] :> Collapse(result.val)) @@ d.retrieved_files
                 IN  IF d.k < Len(d.names)
                     THEN /\ pc' = "par"
                          /\ w' = WrapperBegin(d.s3_files_list_all[d.k + 1],
                                               join(d.download_root_dir, d.names[d.k + 1]),
                                               args.n_workers, args.force_redownload)
                          /\ d' = [d EXCEPT !.k = d.k + 1, !.retrieved_files = rf]
                          /\ UNCHANGED <<q, ret, dirs>>
                     ELSE /\ pc' = "idle" /\ ret' = RetNone /\ w' = wf
                          /\ d' = [d EXCEPT !.retrieved_files = rf]
                          /\ UNCHANGED <<q, dirs>>

\* ---------------------------------------------- what follows the query
\* The code after ecco_podaac_s3_query returned files in the caller.
AfterQuery(qf, files) ==
    CASE fn = "query" ->
            /\ pc' = "idle" /\ ret' = RetList(files) /\ q' = qf
            /\ UNCHANGED <<w, d, dirs>>
      [] fn = "open" ->
            /\ pc' = "open" /\ q' = qf
            /\ UNCHANGED <<ret, w, d, dirs>>
      [] fn = "get" ->
            /\ pc' = "par" /\ q' = qf
            /\ w' = WrapperBegin(files, join(args.download_root_dir, args.ShortName),
                                 args.n_workers, args.force_redownload)
            /\ UNCHANGED <<ret, d, dirs>>
      [] fn = "diskaware" ->
            LET download_dir == join(d.download_root_dir, d.names[d.k])
                d1 == [d EXCEPT
                         !.dataset_sizes = Append(@, DatasetSize(files, download_dir)),
                         !.s3_files_list_all = Append(@, files)]
            IN  /\ dirs' = dirs \cup Ancestors(download_dir)
                /\ IF d.k < Len(d.names)
                   THEN /\ pc' = "query"
                        /\ q' = QueryBegin(d.names[d.k + 1], args.StartDate,
                                           args.EndDate, d.snapshot_interval)
                        /\ d' = [d1 EXCEPT !.k = d.k + 1]
                   ELSE /\ pc' = "probe"
                        /\ q' = qf
                        /\ d' = [d1 EXCEPT !.query_dir = d.download_root_dir]
                /\ UNCHANGED <<ret, w>>

\* lines 125-126: the temporal lower bound of the follow-up request
NextLowerNoAdvance(page) == DayOf(page[Len(page)].time_end)
\* the lower bound taken from the start of the page's last entry
NextLowerFromStart(page) == DayOf(page[Len(page)].time_start)
NextLower(page) == DayOf(page[Len(page)].time_end) + 1

\* ---------------------------------------------- get_granules, one request
\* lines 108-134 and 159-171: one pass of the while loop; the pass that
\* completes the query also applies the two filters and returns
get_granules ==
    /\ pc = "query"
    /\ LET page  == get_results(CatalogOf(q.ShortName), q.lo, q.EndDate)
           ts    == q.time_start \o PageStarts(page)
           files == q.granules \o PageLinks(page)
       IN  IF Len(page) < PageSize
           THEN LET reduced == SingleDayReduce(q.ShortName, q.SingleDay_flag,
                                               ts, files, q.StartDate)
                    result  == MonthlyFilter(q.ShortName, q.snapshot_interval, reduced)
                    qf == [q EXCEPT !.time_start = ts, !.granules = reduced,
                                    !.s3_files_list = result,
                                    !.requests = q.requests + 1]
                IN  AfterQuery(qf, result)
           ELSE /\ q' = [q EXCEPT !.time_start = ts, !.granules = files,
                                  !.requests = q.requests + 1,
                                  !.lo = NextLower(page)]
                /\ UNCHANGED <<pc, ret, w, d, dirs>>
    /\ UNCHANGED <<catalog, avail, fs, fn, args, ncalls, transfers>>

\* lines 117-118: the response carries 'errors' instead of 'feed'
get_granules_errors ==
    /\ pc = "query"
    /\ pc' = "idle"
    /\ ret' = Raised("CatalogError")
    /\ UNCHANGED <<catalog, avail, fs, dirs, fn, args, ncalls, transfers, q, w, d>>


\* ------------------------------------------------ opening on S3
RECURSIVE OpenedDict(_, _, _, _)
OpenedDict(names, lists, k, acc) ==
    IF k > Len(names) THEN acc
    ELSE OpenedDict(names, lists, k + 1,
                    (names[k] :> Collapse(OpenAll(lists[k]))) @@ acc)

\* lines 358-363 and 678-685: every s3.open succeeds
s3_open ==
    /\ pc = "open"
    /\ pc' = "idle"
    /\ IF fn = "open"
       THEN /\ ret' = Collapse(OpenAll(q.s3_files_list))
            /\ d' = d
       ELSE /\ ret' = RetNone
            /\ d' = [d EXCEPT !.retrieved_files =
                        OpenedDict(d.names, d.s3_files_list_all, 1, << >>)]
    /\ UNCHANGED <<catalog, avail, fs, dirs, fn, args, ncalls, transfers, q, w>>

\* one s3.open raises: nothing is returned
s3_open_raises ==
    /\ pc = "open"
    /\ IF fn = "open" THEN q.s3_files_list # << >>
       ELSE \E k \in 1..Len(d.s3_files_list_all) : d.s3_files_list_all[k] # << >>
    /\ pc' = "idle"
    /\ ret' = Raised("TransferError")
    /\ UNCHANGED <<catalog, avail, fs, dirs, fn, args, ncalls, transfers, q, w, d>>

\* ------------------------------------------------ the worker pool
Running == {i \in 1..Len(w.status) : w.status[i] = "running"}

\* a worker takes the next queued task and runs download_file up to the
\* start of s3.get_file (lines 227-238)
task_start(i) ==
    /\ pc = "par"
    /\ i \in 1..Len(w.status)
    /\ w.status[i] = "queued"
    /\ \A j \in 1..(i - 1) : w.status[j] # "queued"
    /\ Cardinality(Running) < w.n_workers
    /\ LET target_file == Target(w.download_dir, w.s3_files_list[i])
       IN  IF ~ isdir(w.download_dir)
           THEN /\ w' = [w EXCEPT !.status[i] = "failed"]
                /\ UNCHANGED <<fs, transfers>>
           ELSE IF isfile(target_file) /\ ~ w.force_redownload
           THEN /\ w' = [w EXCEPT !.status[i] = "done"]
                /\ UNCHANGED <<fs, transfers>>
           ELSE /\ w' = [w EXCEPT !.status[i] = "running"]
                /\ fs' = (target_file :> "partial") @@ fs
                /\ transfers' = transfers + 1
    /\ UNCHANGED <<catalog, avail, dirs, pc, fn, args, ret, ncalls, q, d>>

\* s3.get_file of a running task completes
task_finish(i) ==
    /\ pc = "par"
    /\ i \in Running
    /\ w' = [w EXCEPT !.status[i] = "done"]
    /\ fs' = (Target(w.download_dir, w.s3_files_list[i]) :> "complete") @@ fs
    /\ UNCHANGED <<catalog, avail, dirs, pc, fn, args, ret, ncalls, transfers, q, d>>

\* s3.get_file of a running task raises; what it wrote so far stays
task_fails(i) ==
    /\ pc = "par"
    /\ i \in Running
    /\ w' = [w EXCEPT !.status[i] = "failed"]
    /\ UNCHANGED <<catalog, avail, fs, dirs, pc, fn, args, ret, ncalls, transfers, q, d>>

\* lines 258-269 and 286: the map yielded every result; the wrapper leaves
\* its try block and falls off its end (the return of line 311 belongs to
\* the except block)
download_files_concurrently_returns ==
    /\ pc = "par"
    /\ \A i \in 1..Len(w.status) : w.status[i] = "done"
    /\ AfterWrapper([w EXCEPT !.downloaded_files =
                        Targets(w.download_dir, w.s3_files_list)],
                    RetNone)
    /\ UNCHANGED <<catalog, avail, fs, fn, args, ncalls, transfers>>

\* the loop of lines 297-302, entered at item w1.i
SequentialFrom(w1) ==
    IF w1.i > Len(w1.s3_files_list)
    THEN AfterWrapper(w1, RetList(w1.downloaded_files))
    ELSE /\ pc' = "seq" /\ w' = w1
         /\ UNCHANGED <<ret, q, d, dirs>>

Cancelled(status) ==
    [i \in 1..Len(status) |-> IF status[i] = "queued" THEN "cancelled" ELSE status[i]]

\* line 288: a task's exception reaches the wrapper once the map's
\* iterator arrives at it and the pool has shut down (queued tasks are
\* cancelled, running ones waited for)
parallel_raises ==
    /\ pc = "par"
    /\ Running = {}
    /\ \E k \in 1..Len(w.status) :
          /\ w.status[k] = "failed"
          /\ \A j \in 1..(k - 1) : w.status[j] = "done"
    /\ SequentialFrom([w EXCEPT !.status = Cancelled(w.status),
                                !.downloaded_files = << >>, !.i = 1])
    /\ UNCHANGED <<catalog, avail, fs, fn, args, ncalls, transfers>>

\* line 288: the pool itself cannot be set up (ThreadPoolExecutor, tqdm,
\* repeat and sys are names this file does not import at module level)
pool_raises ==
    /\ pc = "par"
    /\ \A i \in 1..Len(w.status) : w.status[i] = "queued"
    /\ SequentialFrom([w EXCEPT !.status = Cancelled(w.status),
                                !.downloaded_files = << >>, !.i = 1])
    /\ UNCHANGED <<catalog, avail, fs, fn, args, ncalls, transfers>>

\* the sequential loop giving up at a failed transfer and returning what
\* it has so far
sequential_download_partial(ok) ==
    /\ pc = "seq"
    /\ LET u == w.s3_files_list[w.i]
           target_file == Target(w.download_dir, u)
       IN  IF ~ isdir(w.download_dir)
           THEN /\ pc' = "idle" /\ ret' = Raised("ConfigurationError")
                /\ UNCHANGED <<fs, transfers, w, q, d, dirs>>
           ELSE IF isfile(target_file) /\ ~ w.force_redownload
           THEN /\ SequentialFrom([w EXCEPT !.downloaded_files = Append(@, target_file),
                                            !.i = w.i + 1])
                /\ UNCHANGED <<fs, transfers>>
           ELSE IF ok
           THEN /\ fs' = (target_file :> "complete") @@ fs
                /\ transfers' = transfers + 1
                /\ SequentialFrom([w EXCEPT !.downloaded_files = Append(@, target_file),
                                            !.i = w.i + 1])
           ELSE /\ fs' = (target_file :> "partial") @@ fs
                /\ transfers' = transfers + 1
                /\ AfterWrapper(w, RetList(w.downloaded_files))
    /\ UNCHANGED <<catalog, avail, fn, args, ncalls>>


\* lines 298-302: one download_file of the sequential loop; ok tells
\* whether s3.get_file succeeds
sequential_download(ok) ==
    /\ pc = "seq"
    /\ LET u == w.s3_files_list[w.i]
           target_file == Target(w.download_dir, u)
       IN  IF ~ isdir(w.download_dir)
           THEN /\ pc' = "idle" /\ ret' = Raised("ConfigurationError")
                /\ UNCHANGED <<fs, transfers, w, q, d, dirs>>
           ELSE IF isfile(target_file) /\ ~ w.force_redownload
           THEN /\ SequentialFrom([w EXCEPT !.downloaded_files = Append(@, target_file),
                                            !.i = w.i + 1])
                /\ UNCHANGED <<fs, transfers>>
           ELSE IF ok
           THEN /\ fs' = (target_file :> "complete") @@ fs
                /\ transfers' = transfers + 1
                /\ SequentialFrom([w EXCEPT !.downloaded_files = Append(@, target_file),
                                            !.i = w.i + 1])
           ELSE /\ fs' = (target_file :> "partial") @@ fs
                /\ transfers' = transfers + 1
                /\ pc' = "idle" /\ ret' = Raised("TransferError")
                /\ UNCHANGED <<w, q, d, dirs>>
    /\ UNCHANGED <<catalog, avail, fn, args, ncalls>>


\* ------------------------------------------------ disk space probe
\* shutil.disk_usage(p) answers for every path that exists
Exists(p) == isdir(p) \/ isfile(p)
\* join(*os.path.split(query_dir)[:-1]): the head of the path
SplitHead(p) ==
    [p EXCEPT !.comps = IF @ = << >> THEN << >> ELSE SubSeq(@, 1, Len(@) - 1)]

\* np.fmin(np.fmax(max_avail_frac,0),0.9), in tenths
ClampFrac(f) == IF f < 0 THEN 0 ELSE IF f > 9 THEN 9 ELSE f

\* avail_frac <= max_avail_frac with avail_frac = sizes_sum/avail_storage
\* in floating point: a zero avail_storage gives inf or nan, and neither
\* is <= max_avail_frac
WithinBudget(sizes_sum, avail_storage, frac) ==
    /\ avail_storage # 0
    /\ sizes_sum * 10 <= frac * avail_storage

\* lines 632-653: one pass of the probing loop; the pass that finds the
\* free space also takes the download-or-open decision
probe_disk ==
    /\ pc = "probe"
    /\ IF Exists(d.query_dir)
       THEN IF WithinBudget(SumSeq(d.dataset_sizes), avail, d.max_avail_frac)
            THEN IF d.names = << >>
                 THEN /\ pc' = "idle" /\ ret' = RetNone
                      /\ d' = [d EXCEPT !.decision = "download"]
                      /\ w' = w
                 ELSE /\ pc' = "par"
                      /\ w' = WrapperBegin(d.s3_files_list_all[1],
                                           join(d.download_root_dir, d.names[1]),
                                           args.n_workers, args.force_redownload)
                      /\ d' = [d EXCEPT !.decision = "download", !.k = 1]
                      /\ ret' = ret
            ELSE /\ pc' = "open"
                 /\ d' = [d EXCEPT !.decision = "open"]
                 /\ UNCHANGED <<ret, w>>
       ELSE /\ d' = [d EXCEPT !.query_dir = SplitHead(d.query_dir)]
            /\ UNCHANGED <<pc, ret, w>>
    /\ UNCHANGED <<catalog, avail, fs, dirs, fn, args, ncalls, transfers, q>>

\* ------------------------------------------------ the public calls
\* A behaviour is a sequence of at most MaxCalls calls.  A retrieval
\* function or the wrapper is the first call of its behaviour (what it
\* does depends on the catalog and the local files only); download_file
\* calls may follow any call.
CanCall == pc = "idle" /\ ncalls < MaxCalls
CanRetrieve == pc = "idle" /\ ncalls = 0

ecco_podaac_s3_query(ShortName, StartDate, EndDate, snapshot_interval) ==
    /\ CanRetrieve
    /\ fn' = "query"
    /\ args' = [ShortName |-> ShortName, StartDate |-> StartDate, EndDate |-> EndDate,
                snapshot_interval |-> snapshot_interval]
    /\ q' = QueryBegin(ShortName, StartDate, EndDate, snapshot_interval)
    /\ pc' = "query" /\ ret' = Pending /\ ncalls' = ncalls + 1
    /\ UNCHANGED <<catalog, avail, fs, dirs, transfers, w, d>>

\* line 350: the query is made without snapshot_interval, so with its default
ecco_podaac_s3_open(ShortName, StartDate, EndDate, snapshot_interval) ==
    /\ CanRetrieve
    /\ fn' = "open"
    /\ args' = [ShortName |-> ShortName, StartDate |-> StartDate, EndDate |-> EndDate,
                snapshot_interval |-> snapshot_interval]
    /\ q' = QueryBegin(ShortName, StartDate, EndDate, "monthly")
    /\ pc' = "query" /\ ret' = Pending /\ ncalls' = ncalls + 1
    /\ UNCHANGED <<catalog, avail, fs, dirs, transfers, w, d>>

\* lines 499-509: mkdir of the download directory, then the query, again
\* without snapshot_interval
ecco_podaac_s3_get(ShortName, StartDate, EndDate, snapshot_interval, download_root_dir, n_workers, force_redownload, return_downloaded_files) ==
    /\ CanRetrieve
    /\ fn' = "get"
    /\ args' = [ShortName |-> ShortName, StartDate |-> StartDate, EndDate |-> EndDate,
                snapshot_interval |-> snapshot_interval,
                download_root_dir |-> download_root_dir, n_workers |-> n_workers,
                force_redownload |-> force_redownload,
                return_downloaded_files |-> return_downloaded_files]
    /\ dirs' = dirs \cup Ancestors(join(download_root_dir, ShortName))
    /\ q' = QueryBegin(ShortName, StartDate, EndDate, "monthly")
    /\ pc' = "query" /\ ret' = Pending /\ ncalls' = ncalls + 1
    /\ UNCHANGED <<catalog, avail, fs, transfers, w, d>>

\* lines 598-603: snapshot_interval when None
DefaultInterval(ShortNames, snapshot_interval) ==
    IF snapshot_interval # "None" THEN snapshot_interval
    ELSE IF \E k \in 1..Len(Iter(ShortNames)) : Contains(Iter(ShortNames)[k], STR_DAILY)
         THEN "daily" ELSE "monthly"

\* lines 591-615: up to the first query
ecco_podaac_s3_get_diskaware(ShortNames, StartDate, EndDate, snapshot_interval, download_root_dir, max_avail_frac, n_workers, force_redownload) ==
    /\ CanRetrieve
    /\ fn' = "diskaware"
    /\ args' = [ShortNames |-> ShortNames, StartDate |-> StartDate, EndDate |-> EndDate,
                snapshot_interval |-> snapshot_interval,
                download_root_dir |-> download_root_dir,
                max_avail_frac |-> max_avail_frac, n_workers |-> n_workers,
                force_redownload |-> force_redownload]
    /\ LET names == Iter(ShortNames)
           si == DefaultInterval(ShortNames, snapshot_interval)
           d0 == [DiskIdle EXCEPT !.names = names, !.snapshot_interval = si,
                                  !.max_avail_frac = ClampFrac(max_avail_frac),
                                  !.download_root_dir = download_root_dir,
                                  !.query_dir = download_root_dir]
       IN  IF names = << >>
           THEN /\ pc' = "probe" /\ d' = d0 /\ q' = q
           ELSE /\ pc' = "query" /\ d' = [d0 EXCEPT !.k = 1]
                /\ q' = QueryBegin(names[1], StartDate, EndDate, si)
    /\ ret' = Pending /\ ncalls' = ncalls + 1
    /\ UNCHANGED <<catalog, avail, fs, dirs, transfers, w>>

\* download_file without the test for an existing file
download_file_always(url, output_dir, force, ok) ==
    /\ CanCall
    /\ fn' = "download_file"
    /\ args' = [url |-> url, output_dir |-> output_dir, force |-> force]
    /\ pc' = "idle" /\ ncalls' = ncalls + 1
    /\ LET target_file == Target(output_dir, url)
       IN  IF ~ isdir(output_dir)
           THEN /\ ret' = Raised("ConfigurationError")
                /\ UNCHANGED <<fs, transfers>>
           ELSE IF FALSE
           THEN /\ ret' = RetItem(target_file)
                /\ UNCHANGED <<fs, transfers>>
           ELSE /\ transfers' = transfers + 1
                /\ IF ok
                   THEN /\ fs' = (target_file :> "complete") @@ fs
                        /\ ret' = RetItem(target_file)
                   ELSE /\ fs' = (target_file :> "partial") @@ fs
                        /\ ret' = Raised("TransferError")
    /\ q' = QueryIdle /\ w' = WrapperIdle /\ d' = DiskIdle
    /\ UNCHANGED <<catalog, avail, dirs>>

\* lines 227-240, called on its own; ok tells whether s3.get_file succeeds.
\* The locals of the call before are gone.
download_file(url, output_dir, force, ok) ==
    /\ CanCall
    /\ fn' = "download_file"
    /\ args' = [url |-> url, output_dir |-> output_dir, force |-> force]
    /\ pc' = "idle" /\ ncalls' = ncalls + 1
    /\ LET target_file == Target(output_dir, url)
       IN  IF ~ isdir(output_dir)
           THEN /\ ret' = Raised("ConfigurationError")
                /\ UNCHANGED <<fs, transfers>>
           ELSE IF isfile(target_file) /\ ~ force
           THEN /\ ret' = RetItem(target_file)
                /\ UNCHANGED <<fs, transfers>>
           ELSE /\ transfers' = transfers + 1
                /\ IF ok
                   THEN /\ fs' = (target_file :> "complete") @@ fs
                        /\ ret' = RetItem(target_file)
                   ELSE /\ fs' = (target_file :> "partial") @@ fs
                        /\ ret' = Raised("TransferError")
    /\ q' = QueryIdle /\ w' = WrapperIdle /\ d' = DiskIdle
    /\ UNCHANGED <<catalog, avail, dirs>>

\* lines 276-286: the wrapper hands every url to the pool
download_files_s3_wrapper(s3_files_list, download_dir, n_workers, force_redownload) ==
    /\ CanRetrieve
    /\ fn' = "wrapper"
    /\ args' = [s3_files_list |-> s3_files_list, download_dir |-> download_dir,
                n_workers |-> n_workers, force_redownload |-> force_redownload]
    /\ w' = WrapperBegin(s3_files_list, download_dir, n_workers, force_redownload)
    /\ pc' = "par" /\ ret' = Pending /\ ncalls' = ncalls + 1
    /\ UNCHANGED <<catalog, avail, fs, dirs, transfers, q, d>>


\* ------------------------------------------------ inputs
DateRanges == {<<sd, ed>> \in (0..MaxDay) \X (0..MaxDay) : sd <= ed}
Intervals == {"monthly", "daily"}

\* S3 references for direct download calls: two share a file name
File1 == [stem |-> 1, date |-> 0]
File2 == [stem |-> 2, date |-> 1]
UrlSet == {<<"podaac", File1>>, <<"mirror", File1>>, <<"podaac", File2>>}
UrlLists == UNION {[1..n -> UrlSet] : n \in 0..MaxUrls}

DataDir    == [abs |-> TRUE, comps |-> <<"data">>]
MissingDir == [abs |-> TRUE, comps |-> <<"nodir">>]
RelDir     == [abs |-> FALSE, comps |-> <<"dl">>]

\* local files that may be there before the first call, each one whole:
\* a partial file is what a failed transfer of the behaviour leaves
FsSet(dir, files) ==
    UNION {[{join(dir, f) : f \in S} -> {"complete"}] : S \in SUBSET files}

\* ------------------------------------------------ specifications
InitCtl ==
    /\ pc = "idle" /\ fn = "none" /\ args = [none |-> TRUE]
    /\ ret = Pending /\ ncalls = 0 /\ transfers = 0
    /\ q = QueryIdle /\ w = WrapperIdle /\ d = DiskIdle

\* the catalog query and the remote open
InitQuery ==
    /\ InitCtl
    /\ catalog \in CatalogSet
    /\ avail = 0 /\ fs = << >> /\ dirs = {RootDir}

NextQuery ==
    \/ \E sn \in ShortNameSet, r \in DateRanges, si \in Intervals :
          ecco_podaac_s3_query(sn, r[1], r[2], si)
    \/ \E sn \in ShortNameSet, r \in DateRanges, si \in Intervals :
          ecco_podaac_s3_open(sn, r[1], r[2], si)
    \/ get_granules
    \/ get_granules_errors
    \/ s3_open
    \/ s3_open_raises

SpecQuery == InitQuery /\ [][NextQuery]_vars

\* the download helpers called on their own
InitDL ==
    /\ InitCtl
    /\ catalog = << >> /\ avail = 0
    /\ dirs = {RootDir, DataDir}
    /\ fs \in FsSet(DataDir, {File1, File2})

NextDL ==
    \/ \E url \in UrlSet, dir \in {DataDir, MissingDir}, force \in BOOLEAN, ok \in BOOLEAN :
          download_file(url, dir, force, ok)
    \/ \E urls \in UrlLists, dir \in {DataDir, MissingDir}, n \in 1..2, force \in BOOLEAN :
          download_files_s3_wrapper(urls, dir, n, force)
    \/ \E i \in 1..Len(w.status) : task_start(i)
    \/ \E i \in 1..Len(w.status) : task_finish(i)
    \/ \E i \in 1..Len(w.status) : task_fails(i)
    \/ download_files_concurrently_returns
    \/ parallel_raises
    \/ pool_raises
    \/ \E ok \in BOOLEAN : sequential_download(ok)

SpecDL == InitDL /\ [][NextDL]_vars

\* ecco_podaac_s3_get and ecco_podaac_s3_get_diskaware
SmallCatalogs ==
    { [i \in 1..n |-> Entry(i, 0, TicksPerDay, 0, 0)] : n \in 0..2 }

ShortNamesSet ==
    { [type |-> "list", val |-> << >>],
      [type |-> "list", val |-> <<SN_DAILY>>],
      [type |-> "list", val |-> <<SN_DAILY, SN_SNAPSHOT>>],
      [type |-> "str",  val |-> SN_GEOMETRY] }

Init ==
    /\ InitCtl
    /\ catalog \in SmallCatalogs
    /\ avail \in {0, 4, 100}
    /\ \/ dirs = {RootDir} /\ fs = << >>
       \/ /\ dirs = Ancestors(join(DataDir, SN_DAILY))
          /\ fs = (Target(join(DataDir, SN_DAILY), Href(1, 0)) :> "complete")

Next ==
    \/ \E sn \in {SN_DAILY, SN_SNAPSHOT}, si \in Intervals,
          root \in {DataDir, RelDir}, force \in BOOLEAN, rdf \in BOOLEAN :
          ecco_podaac_s3_get(sn, 0, MaxDay, si, root, 2, force, rdf)
    \/ \E sns \in ShortNamesSet, si \in Intervals \cup {"None"},
          root \in {DataDir, RelDir}, frac \in {-1, 5, 12}, force \in BOOLEAN :
          ecco_podaac_s3_get_diskaware(sns, 0, MaxDay, si, root, frac, 2, force)
    \/ get_granules
    \/ get_granules_errors
    \/ probe_disk
    \/ s3_open
    \/ s3_open_raises
    \/ \E i \in 1..Len(w.status) : task_start(i)
    \/ \E i \in 1..Len(w.status) : task_finish(i)
    \/ \E i \in 1..Len(w.status) : task_fails(i)
    \/ download_files_concurrently_returns
    \/ parallel_raises
    \/ pool_raises
    \/ \E ok \in BOOLEAN : sequential_download(ok)

Spec == Init /\ [][Next]_vars


\* ================================================================ claims
IsAggregate(sn) == Contains(sn, STR_MONTHLY) \/ Contains(sn, STR_DAILY)
QueryReturned == pc = "idle" /\ fn = "query" /\ ret.tag = "list"
\* every entry of the catalog that matches the requested range, once, in order
AllMatching == PageLinks(Matching(CatalogOf(q.ShortName), q.StartDate, q.EndDate))
\* successive granules end on strictly later calendar days
EndDaysIncrease(cat) ==
    \A i \in 1..(Len(cat) - 1) : DayOf(cat[i].time_end) < DayOf(cat[i + 1].time_end)

\* C1 as stated: for every time-ordered catalog, the list get_granules
\* collects holds the S3 link of every matching granule exactly once.
C1_Original ==
    (QueryReturned /\ ~ (IsAggregate(q.ShortName) /\ q.SingleDay_flag))
        => q.granules = AllMatching

\* C1 amended: the same, for catalogs whose successive granules end on
\* strictly later calendar days (at most one granule ends per day).
C1_PaginationComplete ==
    (/\ QueryReturned
     /\ ~ (IsAggregate(q.ShortName) /\ q.SingleDay_flag)
     /\ EndDaysIncrease(CatalogOf(q.ShortName)))
        => q.granules = AllMatching

\* two full pages and a partial one were collected
C1_Witness ==
    /\ QueryReturned
    /\ ~ (IsAggregate(q.ShortName) /\ q.SingleDay_flag)
    /\ EndDaysIncrease(CatalogOf(q.ShortName))
    /\ q.requests = 3
    /\ Len(q.granules) = 2 * PageSize + 1

C10_SingleDayAtMostOne ==
    (/\ QueryReturned
     /\ IsAggregate(args.ShortName)
     /\ args.StartDate = args.EndDate)
        => Len(ret.val) <= 1

\* the catalog answered with several entries and one reference was kept
C10_Witness ==
    /\ QueryReturned
    /\ IsAggregate(args.ShortName)
    /\ args.StartDate = args.EndDate
    /\ Len(q.time_start) > 2
    /\ Len(ret.val) = 1

\* what a call handed back, as a sequence
Items(r) == IF r.tag = "item" THEN <<r.val>> ELSE r.val

\* C7 as stated: ecco_podaac_s3_open with snapshot_interval='daily' on a
\* snapshot dataset retrieves the snapshot of every day of the range.
C7_Original ==
    (/\ pc = "idle" /\ fn = "open" /\ ret.tag \in {"list", "item"}
     /\ Contains(args.ShortName, STR_SNAPSHOT)
     /\ args.snapshot_interval = "daily")
        => Items(ret) = OpenAll(q.granules)

\* C8 as stated: a public retrieval function documented to return
\* 'str or list' never returns a one-element list.
C8_Original ==
    (pc = "idle" /\ fn \in {"query", "open", "get"} /\ ret.tag = "list")
        => Len(ret.val) # 1


C3_FallbackWholeBatch ==
    [][(fn = "wrapper" /\ pc \in {"par", "seq"}) =>
          /\ (pc = "par" /\ pc' # "par") =>
                /\ \/ pc' = "seq" /\ w'.i = 1 /\ w'.downloaded_files = << >>
                   \/ pc' = "idle"
                /\ ret'.tag # "raise"
          /\ (pc' = "idle" /\ ret'.tag = "list") =>
                ret'.val = Targets(args.download_dir, args.s3_files_list)
          /\ (pc' = "idle" /\ ret'.tag = "raise") =>
                /\ pc = "seq"
                /\ w.downloaded_files =
                      SubSeq(Targets(args.download_dir, args.s3_files_list), 1, w.i - 1)
      ]_vars

\* a task of the pool failed and the sequential retry returned the whole batch
C3_Witness ==
    /\ pc = "idle" /\ fn = "wrapper" /\ ret.tag = "list"
    /\ Len(ret.val) = MaxUrls
    /\ \E i \in 1..Len(w.status) : w.status[i] = "failed"

\* C5: with force=False, a download_file call that repeats the arguments
\* of the call before it returns the same path, invokes no s3.get_file and
\* leaves the local files as they are; a call whose output_dir does not
\* exist raises before any transfer.
C5_Idempotent ==
    [][(fn' = "download_file" /\ ncalls' = ncalls + 1) =>
          /\ (/\ fn = "download_file" /\ args' = args
              /\ ~ args.force /\ ret.tag = "item")
                => (ret' = ret /\ transfers' = transfers /\ fs' = fs)
          /\ (~ isdir(args'.output_dir))
                => (ret'.tag = "raise" /\ transfers' = transfers /\ fs' = fs)
      ]_vars

\* the second of two calls returned the one local file, fetched once
C5_Witness ==
    /\ pc = "idle" /\ fn = "download_file" /\ ncalls = 2
    /\ ~ args.force /\ ret.tag = "item"
    /\ transfers = 1
    /\ DOMAIN fs = {ret.val}

\* the dataset identifiers a ShortNames argument asks for
Requested(x) == IF x.type = "str" THEN {x.val}
                ELSE {x.val[k] : k \in 1..Len(x.val)}

Answered == Matching(CatalogOf(q.ShortName), q.StartDate, q.EndDate)
\* 1-based positions of the entries whose start is nearest the start date
Nearest(entries, sd) ==
    {k \in 1..Len(entries) :
        \A j \in 1..Len(entries) :
            Abs(entries[k].time_start - Midnight(sd))
                <= Abs(entries[j].time_start - Midnight(sd))}

\* C11 as stated: a single-day query against a MONTHLY or DAILY dataset
\* that the catalog answers with more than one entry returns exactly the
\* S3 link of the entry whose time_start is nearest the start date
\* (checked where every nearest entry has such a link).
C11_Original ==
    (/\ QueryReturned
     /\ IsAggregate(args.ShortName)
     /\ args.StartDate = args.EndDate
     /\ Len(q.time_start) > 1
     /\ PageStarts(Answered) = q.time_start
     /\ \A k \in Nearest(Answered, q.StartDate) : Answered[k].link)
        => \E k \in Nearest(Answered, q.StartDate) : ret.val = <<Answered[k].href>>


\* C12 as stated: the free-disk-space probe ends for every download root:
\* a pass that finds no free space moves on to a directory it has not
\* probed yet (or fails fatally), so that the same directory is never
\* probed again and again.
C12_Original ==
    (pc = "probe" /\ ~ Exists(d.query_dir)) => SplitHead(d.query_dir) # d.query_dir


\* the catalog entries a request with lower bound lo can still return
Remaining(lo) ==
    {i \in 1..Len(CatalogOf(q.ShortName)) :
        CatalogOf(q.ShortName)[i].time_end >= Midnight(lo)}

\* one pass of the pagination loop: a follow-up request is issued only
\* after a full page and with a strictly later lower bound, which leaves
\* at least a page less of the catalog to return; a short page ends the loop
PaginationStep ==
    pc = "query" =>
        LET page == get_results(CatalogOf(q.ShortName), q.lo, q.EndDate)
        IN  /\ Len(page) < PageSize => pc' # "query"
            /\ pc' = "query" =>
                  /\ Len(page) = PageSize
                  /\ q'.requests = q.requests + 1
                  /\ q'.lo > q.lo
                  /\ Cardinality(Remaining(q'.lo)) + PageSize
                        <= Cardinality(Remaining(q.lo))

\* C13: the pagination loop terminates for every finite catalog: every
\* follow-up request follows a page of exactly PageSize entries and uses a
\* strictly later lower bound, which removes at least one page of entries
\* from what the catalog can still return, and the loop ends at the first
\* shorter page (or at a catalog error).
C13_PaginationTerminates == [][PaginationStep]_vars

\* a query that needed three requests has returned
C13_Witness ==
    /\ pc = "idle" /\ fn = "query" /\ ret.tag = "list"
    /\ q.requests = 3
    /\ Len(q.time_start) >= 2 * PageSize


\* two running transfers of the pool write the same local file
SameTargetInFlight ==
    \E i, j \in Running :
        /\ i # j
        /\ Target(w.download_dir, w.s3_files_list[i])
              = Target(w.download_dir, w.s3_files_list[j])

DistinctBasenames(urls) ==
    \A i, j \in 1..Len(urls) : i # j => basename(urls[i]) # basename(urls[j])

ReturnedUnforced ==
    /\ pc = "idle"
    /\ ret.tag \in {"item", "list"}
    /\ \/ fn = "download_file" /\ ~ args.force
       \/ fn = "wrapper" /\ ~ args.force_redownload

\* C15 as stated: with transfers that may fail partway and leave a partial
\* file, every path returned by download_file or download_files_s3_wrapper
\* with force=False is that of a file whose transfer ran to completion.
C15_Original ==
    ReturnedUnforced =>
        \A k \in 1..Len(Items(ret)) :
            /\ isfile(Items(ret)[k])
            /\ fs[Items(ret)[k]] = "complete"

====
